---- MODULE Spec2Model ----
(***************************************************************************)
(* The embedded OAuth 2.0 authorization server of src/server.py: dynamic   *)
(* client registration, the password-protected authorization endpoint,    *)
(* the token endpoint (authorization_code and refresh_token grants), the   *)
(* bearer middleware in front of "/", and the optional snapshot on disk.   *)
(*                                                                         *)
(* Time is counted in ticks of five minutes (the lifetime of an            *)
(* authorization code).  Random identifiers (secrets.token_urlsafe) are    *)
(* modelled as fresh naturals: 0 is never generated and stands for any     *)
(* value the server did not issue (an empty or guessed string).            *)
(***************************************************************************)
EXTENDS Integers, Sequences, FiniteSets, TLC

\* ------------------------------------------------------------------ bounds
MaxClients == 1
MaxCodes == 1
MaxAccess == 3
MaxTime == 3

\* --------------------------------------------------------------- constants
\* timedelta(minutes=5): one tick.
CODE_EXPIRY == 1
\* OAUTH_TOKEN_EXPIRY_SECONDS, an environment setting: here two ticks.
OAUTH_TOKEN_EXPIRY_SECONDS == 2

VARIABLES
    OAUTH_PASSWORD,            \* configuration: "" when not configured
    OAUTH_TOKEN_STORAGE_PATH,  \* configuration: "" when persistence is off
    registered_clients,        \* client_id -> client metadata
    authorization_codes,       \* code -> code data
    access_tokens,             \* token -> token data
    refresh_tokens,            \* refresh_token -> token data
    disk,                      \* the storage file: its condition and its JSON document
    fs,                        \* condition of the file system under the storage path
    now,                       \* datetime.utcnow()
    gen,                       \* how many identifiers of each kind were generated
    response,                  \* the response to the last request
    exchange_log,              \* history: code -> outcomes of the exchanges tried with it
    minted_at,                 \* history: access token -> the time it was minted
    refreshed,                 \* history: the refresh tokens a refresh succeeded with
    before_restart,            \* history: the four maps as the last restart found them
    issued,                    \* history: code -> what POST /authorize issued it for
    inflight                   \* the token requests taken up one by one: data, position

vars == <<OAUTH_PASSWORD, OAUTH_TOKEN_STORAGE_PATH, registered_clients,
          authorization_codes, access_tokens, refresh_tokens, disk, fs, now, gen,
          response, exchange_log, minted_at, refreshed, before_restart, issued,
          inflight>>

config == <<OAUTH_PASSWORD, OAUTH_TOKEN_STORAGE_PATH, fs>>
store == <<registered_clients, authorization_codes, access_tokens, refresh_tokens>>
history == <<exchange_log, minted_at, refreshed, before_restart, issued>>

\* ----------------------------------------------------------- dictionaries
\* d[k] = v
Put(d, k, v) == [x \in (DOMAIN d) \cup {k} |-> IF x = k THEN v ELSE d[x]]
\* del d[k]
Del(d, k) == [x \in (DOMAIN d) \ {k} |-> d[x]]
EmptyDict == [x \in {} |-> 0]

\* ------------------------------------------------------------------ inputs
\* NON_ASCII stands for any string holding a character outside ASCII.
Passwords == {"", "hunter2", "NON_ASCII"}
ClientIdInputs == 0..MaxClients
CodeInputs == 0..MaxCodes
\* Code verifiers a client may present; NON_ASCII stands for any verifier holding a
\* character outside ASCII.
Verifiers == {"", "v1", "v2", "NON_ASCII"}

\* ---------------------------------------------------------------- responses
Response(op, status, error, desc) ==
    [op |-> op, status |-> status, error |-> error, desc |-> desc]
\* An exception no handler catches: the framework answers 500.
Unhandled(op, exception) == Response(op, 500, "internal_server_error", exception)

\* A handler that returns response without having written anything.
Returns(resp) ==
    [response |-> resp,
     registered_clients |-> registered_clients,
     authorization_codes |-> authorization_codes,
     access_tokens |-> access_tokens,
     refresh_tokens |-> refresh_tokens,
     disk |-> disk,
     gen |-> gen]

\* -------------------------------------------------------------------- PKCE
\* hashlib.sha256(...).digest(): one digest per input, no two inputs share one.
sha256(bytes) ==
    CASE bytes = "v1" -> "digest(v1)"
      [] bytes = "v2" -> "digest(v2)"
      [] OTHER -> "digest()"
\* base64.urlsafe_b64encode of a 32-byte digest: 43 characters and one "=" of padding.
urlsafe_b64encode(digest) == <<digest, "=">>
RECURSIVE rstrip(_, _)
rstrip(s, ch) ==
    IF s # <<>> /\ s[Len(s)] = ch THEN rstrip(SubSeq(s, 1, Len(s) - 1), ch) ELSE s
\* str.encode("ascii") raises UnicodeEncodeError on a character outside ASCII.
encode_ascii_raises(s) == s = "NON_ASCII"
\* The S256 challenge a client derives from its verifier.
S256(code_verifier) == rstrip(urlsafe_b64encode(sha256(code_verifier)), "=")

compare_digest(a, b) == a = b

verify_pkce(code_verifier, code_challenge) ==
    IF code_verifier = "" \/ code_challenge = <<>>
    THEN [raised |-> FALSE, value |-> FALSE]
    ELSE IF encode_ascii_raises(code_verifier)
    THEN [raised |-> TRUE, value |-> FALSE]
    ELSE [raised |-> FALSE,
          value |-> compare_digest(
              rstrip(urlsafe_b64encode(sha256(code_verifier)), "="), code_challenge)]

\* Challenges a client may submit: none, the S256 challenge of "v1", and the same
\* with its base64 padding kept.
Challenges == {<<>>, S256("v1"), urlsafe_b64encode(sha256("v1"))}

\* ------------------------------------------------------------- persistence
isoformat(t) == <<"iso", t>>
\* Mutant: the time of day is lost in parsing.
DateOnly(s) == 0
\* datetime.fromisoformat
fromisoformat(s) == s[2]

\* The JSON document _save_tokens_to_disk writes.
Snapshot(rc, at, rt) ==
    [registered_clients |-> rc,
     access_tokens |-> [t \in DOMAIN at |->
         [client_id |-> at[t].client_id,
          expires_at |-> isoformat(at[t].expires_at),
          scope |-> at[t].scope]],
     refresh_tokens |-> rt]

NoFile == [state |-> "missing", data |-> Snapshot(EmptyDict, EmptyDict, EmptyDict)]

\* Mutant: nothing is written.
SaveNothing(rc, at, rt) == [disk |-> disk, raised |-> FALSE]
\* _save_tokens_to_disk on the maps rc, at, rt: the file afterwards, and whether
\* the call raised.  mkdir is outside the try block; open and json.dump are inside.
save_tokens_to_disk(rc, at, rt) ==
    IF OAUTH_TOKEN_STORAGE_PATH = "" THEN [disk |-> disk, raised |-> FALSE]
    ELSE IF fs = "mkdir_fails" THEN [disk |-> disk, raised |-> TRUE]
    ELSE IF fs = "open_fails" THEN [disk |-> disk, raised |-> FALSE]
    ELSE IF fs = "write_fails"
    THEN [disk |-> [state |-> "malformed", data |-> NoFile.data], raised |-> FALSE]
    ELSE [disk |-> [state |-> "written", data |-> Snapshot(rc, at, rt)],
          raised |-> FALSE]

\* The conditions a storage file is found in.  "missing": there is no file;
\* "malformed": its text is no JSON document; "written": the JSON object data;
\* "access_tokens_not_object": the object data, but with an array as its
\* access_tokens member; "refresh_tokens_not_object": the object data, but with an
\* array of strings that are no pairs as its refresh_tokens member.
FileStates ==
    {"missing", "malformed", "written", "access_tokens_not_object",
     "refresh_tokens_not_object"}

\* dict.update(other)
update(d, other) ==
    [x \in (DOMAIN d) \cup (DOMAIN other) |->
        IF x \in DOMAIN other THEN other[x] ELSE d[x]]

\* The loop of _load_tokens_from_disk that parses each expires_at.
parse_access_tokens(at) ==
    [t \in DOMAIN at |-> [at[t] EXCEPT !.expires_at = fromisoformat(@)]]

\* The maps of a process that has just been imported.
NothingYet ==
    [registered_clients |-> EmptyDict, authorization_codes |-> EmptyDict,
     access_tokens |-> EmptyDict, refresh_tokens |-> EmptyDict]

\* _load_tokens_from_disk at import, on the empty maps: the three maps afterwards
\* and the exception that left the function, if one did.  JSONDecodeError, KeyError
\* and ValueError are caught; the three update calls run in order.
load_tokens_from_disk(file) ==
    LET none == [registered_clients |-> EmptyDict, access_tokens |-> EmptyDict,
                 refresh_tokens |-> EmptyDict, raised |-> ""]
    IN  IF OAUTH_TOKEN_STORAGE_PATH = "" THEN none
        ELSE IF file.state = "missing" THEN none
        ELSE IF file.state = "malformed" THEN none
        ELSE IF file.state = "access_tokens_not_object"
        THEN [none EXCEPT !.raised = "AttributeError"]
        ELSE LET at == parse_access_tokens(file.data.access_tokens)
                 rc == update(EmptyDict, file.data.registered_clients)
             IN  IF file.state = "refresh_tokens_not_object"
                 THEN [none EXCEPT !.registered_clients = rc,
                                   !.access_tokens = update(EmptyDict, at)]
                 ELSE [registered_clients |-> rc,
                       access_tokens |-> update(EmptyDict, at),
                       refresh_tokens |-> update(EmptyDict, file.data.refresh_tokens),
                       raised |-> ""]

\* Mutant: the codes of the process before are still there.
CodesSurviveRestart(file) == authorization_codes
\* authorization_codes once the module is imported: the empty dictionary of its
\* definition, which _load_tokens_from_disk does not touch.
authorization_codes_at_import(file) == EmptyDict

\* The process ends and the module is imported again.
Restart ==
    LET loaded == load_tokens_from_disk(disk)
    IN  /\ registered_clients' = loaded.registered_clients
        /\ access_tokens' = loaded.access_tokens
        /\ refresh_tokens' = loaded.refresh_tokens
        /\ authorization_codes' = authorization_codes_at_import(disk)
        /\ response' = IF loaded.raised # "" THEN Unhandled("startup", loaded.raised)
                       ELSE Response("startup", 0, "", "")
        /\ before_restart' =
              [registered_clients |-> registered_clients,
               authorization_codes |-> authorization_codes,
               access_tokens |-> access_tokens,
               refresh_tokens |-> refresh_tokens]
        /\ UNCHANGED <<config, disk, now, gen, exchange_log, minted_at, refreshed,
                       issued, inflight>>

\* The import has not failed: the process serves requests.
Running == ~(response.op = "startup" /\ response.status = 500)

\* ------------------------------------------------------------ registration
RegisterBodies == {[client_name |-> "Claude"]}

\* The client_info dictionary register_client builds; an optional field without a
\* value is left out.  (client_id_issued_at, a timestamp no handler reads, is not
\* modelled.)
client_info(client_id, body) ==
    [client_id |-> client_id,
     client_secret |-> client_id,
     grant_types |-> <<"authorization_code", "refresh_token">>,
     response_types |-> <<"code">>,
     token_endpoint_auth_method |-> "client_secret_post"]
    @@ (IF body.client_name # "" THEN [client_name |-> body.client_name]
        ELSE EmptyDict)

\* Mutant: every client is stored under the first client_id.
RegisterUnderFirstId(body) ==
    LET rc == Put(registered_clients, 1, client_info(1, body))
        saved == save_tokens_to_disk(rc, access_tokens, refresh_tokens)
    IN  [Returns(Response("register", 201, "", "")) EXCEPT
            !.registered_clients = rc,
            !.disk = saved.disk,
            !.gen = [gen EXCEPT !.client = gen.client + 1]]
register_client(body) ==
    LET client_id == gen.client + 1
        rc == Put(registered_clients, client_id, client_info(client_id, body))
        saved == save_tokens_to_disk(rc, access_tokens, refresh_tokens)
    IN  [Returns(IF saved.raised THEN Unhandled("register", "OSError")
                 ELSE Response("register", 201, "", "")) EXCEPT
            !.registered_clients = rc,
            !.disk = saved.disk,
            !.gen = [gen EXCEPT !.client = client_id]]

RegisterClientOf(body) ==
    LET r == register_client(body)
    IN  /\ r.gen.client <= MaxClients
        /\ registered_clients' = r.registered_clients
        /\ authorization_codes' = r.authorization_codes
        /\ access_tokens' = r.access_tokens
        /\ refresh_tokens' = r.refresh_tokens
        /\ disk' = r.disk
        /\ gen' = r.gen
        /\ response' = r.response
        /\ UNCHANGED <<config, now, history, inflight>>

RegisterClient == \E body \in RegisterBodies : RegisterClientOf(body)

\* ----------------------------------------------------------- authorization
AuthorizeQueries == [client_id : ClientIdInputs]

authorize_get(query) ==
    IF query.client_id \notin DOMAIN registered_clients
    THEN Response("authorize_get", 400, "", "Unknown client_id. Please register first.")
    ELSE Response("authorize_get", 200, "", "login form")

AuthorizeGet ==
    /\ \E query \in AuthorizeQueries : response' = authorize_get(query)
    /\ UNCHANGED <<config, store, disk, now, gen, history, inflight>>

\* The forms submitted: every client_id, challenge and password with the default
\* method and scope, and the correct password with another method or scope.
AuthorizeForms ==
    [client_id : ClientIdInputs, code_challenge : Challenges,
     code_challenge_method : {"S256"}, scope : {"mcp:tools"}, password : Passwords]
    \cup
    [client_id : {1}, code_challenge : {S256("v1")},
     code_challenge_method : {"plain"}, scope : {"mcp:tools"}, password : {"hunter2"}]
    \cup
    [client_id : {1}, code_challenge : {S256("v1")},
     code_challenge_method : {"S256"}, scope : {"notes:read"}, password : {"hunter2"}]

\* Mutant: any password passes.
AnyPasswordPasses(password) == "equal"
\* secrets.compare_digest(password, OAUTH_PASSWORD): a str argument outside ASCII
\* raises TypeError.
password_check(password) ==
    IF password = "NON_ASCII" THEN "TypeError"
    ELSE IF compare_digest(password, OAUTH_PASSWORD) THEN "equal"
    ELSE "different"

\* Mutant: an empty server password counts as configured.
EmptyPasswordConfigured == TRUE
\* The test "if not OAUTH_PASSWORD" of authorize_post, negated.
password_configured == OAUTH_PASSWORD # ""

\* authorize_post: the response, the four maps and the storage file afterwards, and
\* the identifiers generated.
authorize_post(form) ==
    IF ~password_configured
    THEN Returns(Response("authorize_post", 500, "",
                          "OAUTH_PASSWORD not configured on server."))
    ELSE IF password_check(form.password) = "TypeError"
    THEN Returns(Unhandled("authorize_post", "TypeError"))
    ELSE IF password_check(form.password) = "different"
    THEN Returns(Response("authorize_post", 401, "",
                          "Invalid password. Please try again."))
    ELSE LET auth_code == gen.code + 1
         IN  [Returns(Response("authorize_post", 302, "", "redirect")) EXCEPT
                !.authorization_codes = Put(authorization_codes, auth_code,
                    [client_id |-> form.client_id,
                     redirect_uri |-> "https://client/callback",
                     code_challenge |-> form.code_challenge,
                     code_challenge_method |-> form.code_challenge_method,
                     scope |-> form.scope,
                     expires_at |-> now + CODE_EXPIRY]),
                !.gen = [gen EXCEPT !.code = auth_code]]

AuthorizePostOf(form) ==
    LET r == authorize_post(form)
    IN  /\ r.gen.code <= MaxCodes
        /\ registered_clients' = r.registered_clients
        /\ authorization_codes' = r.authorization_codes
        /\ access_tokens' = r.access_tokens
        /\ refresh_tokens' = r.refresh_tokens
        /\ disk' = r.disk
        /\ gen' = r.gen
        /\ response' = r.response
        /\ exchange_log' = [c \in 1..r.gen.code |->
                              IF c \in DOMAIN exchange_log THEN exchange_log[c]
                              ELSE {}]
        /\ issued' = IF r.gen.code > gen.code
                     THEN Put(issued, r.gen.code,
                              [client_id |-> form.client_id, scope |-> form.scope,
                               password |-> form.password])
                     ELSE issued
        /\ UNCHANGED <<config, now, minted_at, refreshed, before_restart, inflight>>

AuthorizePost == \E form \in AuthorizeForms : AuthorizePostOf(form)

\* ---------------------------------------------------------- token endpoint
RefreshInputs == 0..MaxCodes
TokenRequests ==
    [grant_type : {"authorization_code"}, code : CodeInputs,
     code_verifier : Verifiers, client_id : ClientIdInputs, refresh_token : {0}]
    \cup
    [grant_type : {"refresh_token"}, code : {0}, code_verifier : {""},
     client_id : ClientIdInputs, refresh_token : RefreshInputs]
    \cup
    [grant_type : {"client_credentials"}, code : {0}, code_verifier : {""},
     client_id : {0}, refresh_token : {0}]

\* Mutant: a code never expires.
CodeNeverExpires(code_data) == FALSE
AuthCodeRequests == {data \in TokenRequests : data.grant_type = "authorization_code"}

\* code_data["expires_at"] < datetime.utcnow()
code_expired(code_data) == code_data.expires_at < now

\* Mutant: the lifetime is not added.
AccessTokenWithoutLifetime(client_id, scope) ==
    [client_id |-> client_id, expires_at |-> now, scope |-> scope]
\* Mutant: the token gets the default scope.
AccessTokenOfDefaultScope(client_id, scope) ==
    [client_id |-> client_id,
     expires_at |-> now + OAUTH_TOKEN_EXPIRY_SECONDS,
     scope |-> "mcp:tools"]
\* The access token record minted at the current time.
new_access_token_data(client_id, scope) ==
    [client_id |-> client_id,
     expires_at |-> now + OAUTH_TOKEN_EXPIRY_SECONDS,
     scope |-> scope]

\* Mutant: the used code is kept.
KeepUsedCode(codes, code) == codes
\* del authorization_codes[code], after the tokens were stored and saved.
delete_used_code(codes, code) == Del(codes, code)

\* Mutant: the refresh token is spent by its use.
SpendRefreshToken(refresh_token) == Del(refresh_tokens, refresh_token)
\* Mutant: the refresh token is rotated.
RotateRefreshToken(refresh_token) ==
    Put(Del(refresh_tokens, refresh_token), gen.refresh + 1,
        refresh_tokens[refresh_token])
\* What a refresh leaves of refresh_tokens: the token used is neither rotated nor
\* removed.
refresh_tokens_after_refresh(refresh_token) == refresh_tokens

\* Mutant: an error response is preceded by a save.
TokenErrorSaves(desc) ==
    [Returns(Response("token", 400, "invalid_grant", desc)) EXCEPT
        !.disk = save_tokens_to_disk(registered_clients, access_tokens,
                                     refresh_tokens).disk]
\* An error response of the token endpoint: nothing is written.
TokenError(desc) == Returns(Response("token", 400, "invalid_grant", desc))

\* The authorization_code grant.
exchange_code(data) ==
    LET code == data.code
        client_id == data.client_id
    IN
    IF code \notin DOMAIN authorization_codes
    THEN TokenError("Invalid authorization code")
    ELSE LET code_data == authorization_codes[code] IN
    IF code_expired(code_data)
    THEN [TokenError("Authorization code expired")
            EXCEPT !.authorization_codes = Del(authorization_codes, code)]
    ELSE IF code_data.client_id # client_id
    THEN TokenError("Client ID mismatch")
    ELSE LET pkce == IF code_data.code_challenge # <<>>
                     THEN verify_pkce(data.code_verifier, code_data.code_challenge)
                     ELSE [raised |-> FALSE, value |-> TRUE] IN
    IF pkce.raised
    THEN Returns(Unhandled("token", "UnicodeEncodeError"))
    ELSE IF ~pkce.value
    THEN TokenError("PKCE verification failed")
    ELSE LET access_token == gen.access + 1
             refresh_token == gen.refresh + 1
             at == Put(access_tokens, access_token,
                       new_access_token_data(client_id, code_data.scope))
             rt == Put(refresh_tokens, refresh_token,
                       [client_id |-> client_id, scope |-> code_data.scope])
             saved == save_tokens_to_disk(registered_clients, at, rt)
         IN  [response |-> IF saved.raised THEN Unhandled("token", "OSError")
                           ELSE Response("token", 200, "", "tokens"),
              registered_clients |-> registered_clients,
              authorization_codes |-> IF saved.raised THEN authorization_codes
                                      ELSE delete_used_code(authorization_codes, code),
              access_tokens |-> at,
              refresh_tokens |-> rt,
              disk |-> saved.disk,
              gen |-> [gen EXCEPT !.access = access_token, !.refresh = refresh_token]]

\* The refresh_token grant.
refresh(data) ==
    LET refresh_token == data.refresh_token
        client_id == data.client_id
    IN
    IF refresh_token \notin DOMAIN refresh_tokens
    THEN TokenError("Invalid refresh token")
    ELSE LET token_data == refresh_tokens[refresh_token] IN
    IF token_data.client_id # client_id
    THEN TokenError("Client ID mismatch")
    ELSE LET new_access_token == gen.access + 1
             at == Put(access_tokens, new_access_token,
                       new_access_token_data(client_id, token_data.scope))
             rt == refresh_tokens_after_refresh(refresh_token)
             saved == save_tokens_to_disk(registered_clients, at, rt)
         IN  [response |-> IF saved.raised THEN Unhandled("token", "OSError")
                           ELSE Response("token", 200, "", "access token"),
              registered_clients |-> registered_clients,
              authorization_codes |-> authorization_codes,
              access_tokens |-> at,
              refresh_tokens |-> rt,
              disk |-> saved.disk,
              gen |-> [gen EXCEPT !.access = new_access_token]]

token_endpoint(data) ==
    IF data.grant_type = "authorization_code" THEN exchange_code(data)
    ELSE IF data.grant_type = "refresh_token" THEN refresh(data)
    ELSE Returns(Response("token", 400, "unsupported_grant_type", ""))

\* What an exchange adds to the history of its code.
\* A rejection for an unknown code is logged once the code has been exchanged.
Logged(code) ==
    {"exchanged", "Client ID mismatch", "PKCE verification failed",
     "Authorization code expired"}
    \cup (IF "exchanged" \in exchange_log[code] THEN {"Invalid authorization code"}
          ELSE {})
Outcome(code, r) ==
    LET o == IF r.response.status = 200 THEN "exchanged" ELSE r.response.desc
    IN  IF o \in Logged(code) THEN {o} ELSE {}

\* What token_endpoint(data), with the result r, leaves of everything but
\* authorization_codes.
TokenEndpointWrites(data, r) ==
        /\ registered_clients' = r.registered_clients
        /\ access_tokens' = r.access_tokens
        /\ refresh_tokens' = r.refresh_tokens
        /\ disk' = r.disk
        /\ gen' = r.gen
        /\ response' = r.response
        /\ exchange_log' =
             IF data.grant_type = "authorization_code"
                /\ data.code \in DOMAIN exchange_log
             THEN [exchange_log EXCEPT ![data.code] = @ \cup Outcome(data.code, r)]
             ELSE exchange_log
        /\ minted_at' = [t \in DOMAIN r.access_tokens |->
                           IF t \in DOMAIN minted_at THEN minted_at[t] ELSE now]
        /\ refreshed' =
             IF data.grant_type = "refresh_token" /\ r.response.status = 200
             THEN refreshed \cup {data.refresh_token}
             ELSE refreshed
        /\ UNCHANGED <<config, now, before_restart, issued>>

\* A token request handled in one piece.
TokenEndpointOf(data) ==
    LET r == token_endpoint(data)
    IN  /\ r.gen.access <= MaxAccess
        /\ authorization_codes' = r.authorization_codes
        /\ TokenEndpointWrites(data, r)
        /\ UNCHANGED inflight

TokenEndpoint == \E data \in TokenRequests : TokenEndpointOf(data)

\* ------------------------------------------------------- bearer middleware
\* PUBLIC_PATHS, each a sequence of path pieces.
PUBLIC_PATHS ==
    {<<"/", "health">>, <<"/", ".well-known", "/">>, <<"/", "authorize">>,
     <<"/", "token">>, <<"/", "register">>}
startswith(s, prefix) ==
    Len(s) >= Len(prefix) /\ SubSeq(s, 1, Len(prefix)) = prefix

TokenInputs == 0..MaxAccess
\* An Authorization header: its first seven characters and the rest.
AuthorizationHeaders ==
    {[first7 |-> "", rest |-> 0]}
    \cup [first7 : {"Bearer "}, rest : TokenInputs]
    \cup [first7 : {"Basic x"}, rest : {1}]
Requests ==
    [method : {"POST", "OPTIONS"},
     path : {<<"/">>, <<"/", "token">>},
     Authorization : AuthorizationHeaders]

\* Mutant: expiry is not looked at.
TokenNeverExpires(token_data) == FALSE
\* token_data["expires_at"] < datetime.utcnow()
token_expired(token_data) == token_data.expires_at < now

CallNext == Response("dispatch", 200, "", "call_next")

dispatch(request) ==
    IF request.method = "OPTIONS" THEN CallNext
    ELSE IF \E p \in PUBLIC_PATHS : startswith(request.path, p) THEN CallNext
    ELSE IF request.path = <<"/">>
    THEN LET auth_header == request.Authorization IN
         IF auth_header.first7 # "Bearer "
         THEN Response("dispatch", 401, "unauthorized", "Missing Authorization header")
         ELSE LET token == auth_header.rest IN
         IF token \notin DOMAIN access_tokens
         THEN Response("dispatch", 401, "invalid_token", "Token not found")
         ELSE IF token_expired(access_tokens[token])
         THEN Response("dispatch", 401, "invalid_token", "Token expired")
         ELSE CallNext
    ELSE CallNext

\* Mutant: a token found expired is evicted.
EvictExpiredToken(request) ==
    LET token == request.Authorization.rest
    IN  IF dispatch(request).desc = "Token expired" THEN Del(access_tokens, token)
        ELSE access_tokens
\* access_tokens after dispatch: the middleware only reads it.
access_tokens_after_dispatch(request) == access_tokens

Dispatch ==
    /\ \E request \in Requests :
          /\ response' = dispatch(request)
          /\ access_tokens' = access_tokens_after_dispatch(request)
    /\ UNCHANGED <<config, registered_clients, authorization_codes, refresh_tokens,
                   disk, now, gen, history, inflight>>

\* ------------------------------------------------------------------- clock
Tick ==
    /\ now < MaxTime
    /\ now' = now + 1
    /\ UNCHANGED <<config, store, disk, gen, response, history, inflight>>

\* ----------------------------------------------------------- specification
\* The state after import: a password configured or not, a storage path
\* configured, no storage file yet, a file system without faults.
Init ==
    /\ OAUTH_PASSWORD \in {"", "hunter2"}
    /\ OAUTH_TOKEN_STORAGE_PATH = "/data/tokens.json"
    /\ fs = "ok"
    /\ registered_clients = EmptyDict
    /\ authorization_codes = EmptyDict
    /\ access_tokens = EmptyDict
    /\ refresh_tokens = EmptyDict
    /\ disk = NoFile
    /\ now = 0
    /\ gen = [client |-> 0, code |-> 0, access |-> 0, refresh |-> 0]
    /\ response = Response("startup", 0, "", "")
    /\ exchange_log = EmptyDict
    /\ minted_at = EmptyDict
    /\ refreshed = {}
    /\ before_restart = NothingYet
    /\ issued = EmptyDict
    /\ inflight = <<>>

Next ==
    \/ RegisterClient
    \/ AuthorizeGet
    \/ AuthorizePost
    \/ TokenEndpoint
    \/ Dispatch
    \/ Tick

Spec == Init /\ [][Next]_vars

\* ------------------------------------------- specification with restarts
\* The requests of one client that authorizes, exchanges its code and refreshes.
RestartForms ==
    [client_id : {1}, code_challenge : {S256("v1")}, code_challenge_method : {"S256"},
     scope : {"mcp:tools", "notes:read"}, password : {"hunter2"}]
RestartTokenRequests ==
    {data \in TokenRequests :
        /\ data.client_id = 1
        /\ data.code_verifier \in {"", "v1"}
        /\ data.code = 0 \/ data.refresh_token = 0}

Serve ==
    \/ RegisterClient
    \/ \E form \in RestartForms : AuthorizePostOf(form)
    \/ \E data \in RestartTokenRequests : TokenEndpointOf(data)
    \/ Dispatch

InitRestart == Init /\ OAUTH_PASSWORD = "hunter2"

NextRestart ==
    \/ Serve
    \/ Tick
    \/ Restart

\* The server with a storage path, a file system without faults, and restarts.
SpecRestart == InitRestart /\ [][NextRestart]_vars

\* --------------------------------------------- specification with faults
FsConditions == {"ok", "mkdir_fails", "open_fails", "write_fails"}

\* The file system under the storage path changes its condition.
FsChange ==
    /\ \E c \in FsConditions \ {fs} : fs' = c
    /\ UNCHANGED <<OAUTH_PASSWORD, OAUTH_TOKEN_STORAGE_PATH, store, disk, now, gen,
                   response, history, inflight>>

\* The storage file is damaged or edited by something other than the server.
DamageFile ==
    /\ disk.state = "written"
    /\ \E kind \in FileStates \ {"missing", "written"} :
          disk' = IF kind = "malformed" THEN [state |-> kind, data |-> NoFile.data]
                  ELSE [disk EXCEPT !.state = kind]
    /\ UNCHANGED <<config, store, now, gen, response, history, inflight>>

\* The requests that write: registration, authorization, exchange and refresh.
ServeWrites ==
    \/ RegisterClient
    \/ \E form \in RestartForms : form.scope = "mcp:tools" /\ AuthorizePostOf(form)
    \/ \E data \in RestartTokenRequests : TokenEndpointOf(data)

NextFaults ==
    \/ Running /\ ServeWrites
    \/ Restart
    \/ FsChange
    \/ DamageFile

\* The server with a storage path, restarts, a file system that may fail and a
\* storage file that may be damaged.
SpecFaults == InitRestart /\ [][NextFaults]_vars

\* ------------------------------ specification with requests in flight
\* How many token requests are taken up in one behaviour.
MaxInflight == 2

\* Exchange requests of client 1 for the code issued, with the right verifier or
\* another one.
ConcurrentRequests ==
    {data \in AuthCodeRequests :
        data.code = 1 /\ data.client_id = 1 /\ data.code_verifier \in {"v1", "v2"}}

\* token_endpoint is entered and suspended at "await request.form()"; the request
\* notes whether its code was in the store at that moment.
Arrive ==
    /\ Len(inflight) < MaxInflight
    /\ \E data \in ConcurrentRequests :
          inflight' = Append(inflight,
              [data |-> data, pc |-> "form",
               code_present |-> data.code \in DOMAIN authorization_codes,
               response |-> Response("token", 0, "", "")])
    /\ UNCHANGED <<config, store, disk, now, gen, response, history>>

\* Mutant: the save is awaited, which suspends the handler before it deletes the code.
SaveIsAwaited == TRUE
\* _save_tokens_to_disk is a plain function, called without await: between the
\* lookup of the code and its deletion the handler is not suspended.
save_suspends == FALSE

\* The event loop resumes request i.  After the form is read the handler runs to its
\* return; were it suspended at the save, it would go on from there with
\* "del authorization_codes[code]".
Resume(i) ==
    LET req == inflight[i]
        r == token_endpoint(req.data)
        suspended == save_suspends /\ r.gen # gen
    IN  IF req.pc = "form"
        THEN /\ r.gen.access <= MaxAccess
             /\ authorization_codes' = IF suspended THEN authorization_codes
                                       ELSE r.authorization_codes
             /\ TokenEndpointWrites(req.data, r)
             /\ inflight' = [inflight EXCEPT
                    ![i] = [req EXCEPT !.pc = IF suspended THEN "save" ELSE "done",
                                       !.response = r.response]]
        ELSE /\ req.pc = "save"
             /\ authorization_codes' = Del(authorization_codes, req.data.code)
             /\ inflight' = [inflight EXCEPT ![i].pc = "done"]
             /\ UNCHANGED <<config, registered_clients, access_tokens, refresh_tokens,
                            disk, now, gen, response, history>>

ResumeOne == \E i \in DOMAIN inflight : Resume(i)

NextConcurrent ==
    \/ RegisterClient
    \/ \E form \in RestartForms : AuthorizePostOf(form)
    \/ Arrive
    \/ ResumeOne
    \/ Tick

\* The server with exchange requests that wait for their form while others run.
SpecConcurrent == InitRestart /\ [][NextConcurrent]_vars

\* ------------------------------------------------------------------ claims
\* Those whose code_verifier is ASCII text, as every verifier of RFC 7636 is.
AsciiAuthCodeRequests == {data \in AuthCodeRequests : data.code_verifier # "NON_ASCII"}
\* The codes issued so far to a registered client.
CodesOfRegisteredClients ==
    {code \in DOMAIN exchange_log :
        code \in DOMAIN authorization_codes
        => authorization_codes[code].client_id \in DOMAIN registered_clients}
Exchanged(code) == code \in DOMAIN exchange_log /\ "exchanged" \in exchange_log[code]
\* The request presenting access token t to the protected path.
BearerRequest(t) ==
    [method |-> "POST", path |-> <<"/">>,
     Authorization |-> [first7 |-> "Bearer ", rest |-> t]]

\* C1: once a code has been exchanged for tokens, every later authorization_code
\* request with that code, whatever its client_id and code_verifier, is answered
\* 400 invalid_grant and adds no access token and no refresh token.
C1_ReplayIsInvalidGrant ==
    \A data \in AuthCodeRequests :
        Exchanged(data.code) =>
            LET r == token_endpoint(data)
            IN  /\ r.response.status = 400
                /\ r.response.error = "invalid_grant"
                /\ r.access_tokens = access_tokens
                /\ r.refresh_tokens = refresh_tokens

\* A code was exchanged, then presented again and refused.
C1_Witness ==
    /\ response.desc = "Invalid authorization code"
    /\ \E code \in DOMAIN exchange_log :
        {"exchanged", "Invalid authorization code"} \subseteq exchange_log[code]

\* C2: after an exchange with a code was refused because PKCE verification failed,
\* every further exchange with that code is answered invalid_grant, also with the
\* bound client_id and the right code_verifier.
C2_PkceFailureConsumesCode ==
    \A data \in AsciiAuthCodeRequests :
        (/\ data.code \in CodesOfRegisteredClients
         /\ "PKCE verification failed" \in exchange_log[data.code])
        => token_endpoint(data).response.error = "invalid_grant"

\* C3: a code the token endpoint has looked up is deleted whatever the outcome: after
\* an exchange refused for a client_id mismatch the code is no longer in
\* authorization_codes, and no later request redeems it.
C3_MismatchConsumesCode ==
    \A code \in CodesOfRegisteredClients :
        "Client ID mismatch" \in exchange_log[code] =>
            /\ code \notin DOMAIN authorization_codes
            /\ \A data \in AsciiAuthCodeRequests :
                data.code = code => token_endpoint(data).response.error = "invalid_grant"

\* C4: every authorization code, access token and refresh token is created with a
\* client_id that is a key of registered_clients at that moment.
C4_IssuedToRegisteredClient ==
    [][/\ \A c \in (DOMAIN authorization_codes') \ (DOMAIN authorization_codes) :
            authorization_codes'[c].client_id \in DOMAIN registered_clients
       /\ \A t \in (DOMAIN access_tokens') \ (DOMAIN access_tokens) :
            access_tokens'[t].client_id \in DOMAIN registered_clients
       /\ \A t \in (DOMAIN refresh_tokens') \ (DOMAIN refresh_tokens) :
            refresh_tokens'[t].client_id \in DOMAIN registered_clients]_vars

\* C5: a request to "/" that is not OPTIONS reaches the protected endpoint only with
\* a header "Bearer <t>" whose t is a key of access_tokens and not past its
\* expires_at; without a Bearer header, with a token not in the store, or with a
\* token past its expires_at, the answer is 401 and the endpoint is not invoked.
C5_ProtectedPathNeedsStoredToken ==
    \A request \in Requests :
        (request.method # "OPTIONS" /\ request.path = <<"/">>) =>
            LET r == dispatch(request)
                h == request.Authorization
                known == h.first7 = "Bearer " /\ h.rest \in DOMAIN access_tokens
            IN  /\ r = CallNext => (known /\ now <= access_tokens[h.rest].expires_at)
                /\ h.first7 # "Bearer " => (r.status = 401 /\ r.error = "unauthorized")
                /\ (h.first7 = "Bearer " /\ ~known) =>
                       (r.status = 401 /\ r.error = "invalid_token")
                /\ (known /\ now > access_tokens[h.rest].expires_at) =>
                       (r.status = 401 /\ r.error = "invalid_token")

\* The middleware has refused an expired token while another request would pass.
C5_Witness ==
    /\ response = Response("dispatch", 401, "invalid_token", "Token expired")
    /\ \E t \in DOMAIN access_tokens : dispatch(BearerRequest(t)) = CallNext

\* C6: an access token is refused with 401 invalid_token whenever the current time
\* is greater than or equal to its expires_at, the instant now = expires_at included.
C6_RejectedFromExpiresAt ==
    \A t \in DOMAIN access_tokens :
        (/\ access_tokens[t].client_id \in DOMAIN registered_clients
         /\ now >= access_tokens[t].expires_at) =>
            LET r == dispatch(BearerRequest(t))
            IN  r.status = 401 /\ r.error = "invalid_token"

\* C7: an access token minted at t0 (by exchange or by refresh) has
\* expires_at = t0 + TTL whatever happened since, passes the middleware at every
\* time before t0 + TTL and is refused at every time after it.
C7_TokenLifetime ==
    \A t \in DOMAIN minted_at :
        LET deadline == minted_at[t] + OAUTH_TOKEN_EXPIRY_SECONDS
            r == dispatch(BearerRequest(t))
        IN  /\ t \in DOMAIN access_tokens
            /\ access_tokens[t].expires_at = deadline
            /\ now < deadline => r = CallNext
            /\ now > deadline => (r.status = 401 /\ r.error = "invalid_token")

\* A token minted by a refresh has outlived its lifetime and was refused.
C7_Witness ==
    /\ response = Response("dispatch", 401, "invalid_token", "Token expired")
    /\ refreshed # {}
    /\ \E t \in DOMAIN minted_at : now > minted_at[t] + OAUTH_TOKEN_EXPIRY_SECONDS

\* C8: POST /authorize with a password other than the configured one answers with
\* an error, issues no code and leaves all four maps as they were.
C8_WrongPasswordChangesNothing ==
    \A form \in AuthorizeForms :
        form.password # OAUTH_PASSWORD =>
            LET r == authorize_post(form)
            IN  /\ r.response.status \in {401, 500}
                /\ r.registered_clients = registered_clients
                /\ r.authorization_codes = authorization_codes
                /\ r.access_tokens = access_tokens
                /\ r.refresh_tokens = refresh_tokens
                /\ r.gen = gen

\* A wrong password was refused while a code was in the store.
C8_Witness ==
    /\ response = Response("authorize_post", 401, "",
                           "Invalid password. Please try again.")
    /\ DOMAIN authorization_codes # {}

\* C9: a refresh token that a refresh has succeeded with stays in refresh_tokens with
\* its binding, and a further refresh with it and its client_id succeeds again and
\* mints a new access token.
C9_RefreshTokenReusable ==
    \A rt \in refreshed :
        /\ rt \in DOMAIN refresh_tokens
        /\ LET data == [grant_type |-> "refresh_token", code |-> 0,
                        code_verifier |-> "", client_id |-> refresh_tokens[rt].client_id,
                        refresh_token |-> rt]
               r == token_endpoint(data)
           IN  /\ r.response.status = 200
               /\ r.refresh_tokens = refresh_tokens
               /\ (DOMAIN r.access_tokens) \ (DOMAIN access_tokens) # {}
               /\ \A t \in DOMAIN access_tokens : r.access_tokens[t] = access_tokens[t]

\* Two refreshes in a row have succeeded with the one refresh token there is.
C9_Witness ==
    /\ response = Response("token", 200, "", "access token")
    /\ refreshed # {}
    /\ Cardinality(DOMAIN refresh_tokens) = 1
    /\ Cardinality(DOMAIN access_tokens) >= 3

\* C10: for a code recorded with a non-empty code_challenge the exchange mints tokens
\* only if the presented verifier hashes (S256, base64url, no padding) to exactly
\* that challenge; an absent, empty or non-matching verifier is answered
\* invalid_grant and creates no token.
C10_PkceEnforced ==
    \A data \in AuthCodeRequests :
        (/\ data.code \in DOMAIN authorization_codes
         /\ authorization_codes[data.code].code_challenge # <<>>)
        => LET r == token_endpoint(data)
               matches == /\ data.code_verifier # ""
                          /\ S256(data.code_verifier)
                               = authorization_codes[data.code].code_challenge
           IN  /\ r.response.status = 200 => matches
               /\ ~matches => /\ r.response.error = "invalid_grant"
                              /\ r.access_tokens = access_tokens
                              /\ r.refresh_tokens = refresh_tokens

\* The part of C10 the code keeps: tokens are minted for a code with a challenge only
\* when the verifier hashes to it, and any other ASCII verifier is answered
\* invalid_grant without a token being created.
PkceOnlyMatchingVerifierMints ==
    \A data \in AuthCodeRequests :
        (/\ data.code \in DOMAIN authorization_codes
         /\ authorization_codes[data.code].code_challenge # <<>>)
        => LET r == token_endpoint(data)
               matches == /\ data.code_verifier # ""
                          /\ S256(data.code_verifier)
                               = authorization_codes[data.code].code_challenge
           IN  /\ r.response.status = 200 => matches
               /\ ~matches => /\ r.access_tokens = access_tokens
                              /\ r.refresh_tokens = refresh_tokens
                              /\ data.code_verifier # "NON_ASCII"
                                   => r.response.error = "invalid_grant"

\* C11: every authorization code in the store has code_challenge_method "S256": a
\* POST /authorize submitting another method, such as plain, leaves no code recorded
\* with that method.
C11_MethodAlwaysS256 ==
    \A c \in DOMAIN authorization_codes :
        authorization_codes[c].client_id \in DOMAIN registered_clients
        => authorization_codes[c].code_challenge_method = "S256"

\* C12: with a storage path and writes that succeed, a restart installs from the file
\* exactly the clients, access tokens and refresh tokens the process held: each access
\* token from before a restart is in the store with the same client_id, scope and
\* expires_at, passes the middleware before that time and is refused after it, and
\* the refresh tokens and clients from before are there unchanged.
C12_RoundTripKeepsTokens ==
    /\ LET loaded == load_tokens_from_disk(disk)
       IN  /\ loaded.raised = ""
           /\ loaded.registered_clients = registered_clients
           /\ loaded.access_tokens = access_tokens
           /\ loaded.refresh_tokens = refresh_tokens
    /\ \A t \in DOMAIN before_restart.access_tokens :
        /\ t \in DOMAIN access_tokens
        /\ access_tokens[t] = before_restart.access_tokens[t]
        /\ LET r == dispatch(BearerRequest(t))
           IN  /\ now < before_restart.access_tokens[t].expires_at => r = CallNext
               /\ now > before_restart.access_tokens[t].expires_at
                    => (r.status = 401 /\ r.error = "invalid_token")
    /\ \A t \in DOMAIN before_restart.refresh_tokens :
        /\ t \in DOMAIN refresh_tokens
        /\ refresh_tokens[t] = before_restart.refresh_tokens[t]
    /\ \A c \in DOMAIN before_restart.registered_clients :
        /\ c \in DOMAIN registered_clients
        /\ registered_clients[c] = before_restart.registered_clients[c]

\* A process restarted with two access tokens and a refresh token on file; one of
\* the tokens from before still passes the middleware, the other was just refused
\* as expired.
C12_Witness ==
    /\ Cardinality(DOMAIN before_restart.access_tokens) >= 2
    /\ DOMAIN before_restart.refresh_tokens # {}
    /\ response = Response("dispatch", 401, "invalid_token", "Token expired")
    /\ \E t \in DOMAIN before_restart.access_tokens :
        dispatch(BearerRequest(t)) = CallNext

\* C13: the snapshot written holds no authorization codes, authorization_codes is
\* empty once a restart is done, and every code issued before a restart is answered
\* 400 invalid_grant at the token endpoint without a token being created.
C13_CodesNotPersisted ==
    /\ DOMAIN disk.data = {"registered_clients", "access_tokens", "refresh_tokens"}
    /\ response.op = "startup" => authorization_codes = EmptyDict
    /\ \A code \in DOMAIN before_restart.authorization_codes :
        /\ code \notin DOMAIN authorization_codes
        /\ \A data \in AuthCodeRequests :
            data.code = code =>
                LET r == token_endpoint(data)
                IN  /\ r.response.status = 400
                    /\ r.response.error = "invalid_grant"
                    /\ r.access_tokens = access_tokens
                    /\ r.refresh_tokens = refresh_tokens

\* A code was issued to a registered client, the process restarted with the client
\* on file, and the code was then presented and refused.
C13_Witness ==
    /\ DOMAIN before_restart.authorization_codes # {}
    /\ DOMAIN registered_clients # {}
    /\ response = Response("token", 400, "invalid_grant", "Invalid authorization code")

\* C14: whatever the persistence step does, a registration answers 201 with the new
\* client in registered_clients, and an exchange or refresh that has stored a new
\* token answers 200.
C14_SaveFailureNeverFailsRequest ==
    /\ \A body \in RegisterBodies :
        LET r == register_client(body)
        IN  /\ r.response.status = 201
            /\ r.gen.client \in DOMAIN r.registered_clients
    /\ \A data \in TokenRequests :
        LET r == token_endpoint(data)
        IN  r.access_tokens # access_tokens => r.response.status = 200

\* C15: when the storage file is missing or malformed in any part, the import goes
\* through and leaves registered_clients, access_tokens and refresh_tokens all empty.
C15_LoadAllOrNothing ==
    LET loaded == load_tokens_from_disk(disk)
    IN  /\ loaded.raised = ""
        /\ disk.state # "written" =>
            /\ loaded.registered_clients = EmptyDict
            /\ loaded.access_tokens = EmptyDict
            /\ loaded.refresh_tokens = EmptyDict

\* C16: with a storage path and writes that succeed, the storage file holds the
\* snapshot of the current registered_clients, access_tokens and refresh_tokens from
\* the first registration, exchange or refresh on; each of them writes the snapshot
\* of the maps it leaves, and POST /authorize does not write the file.
C16_SnapshotEqualsMemory ==
    /\ disk.data = Snapshot(registered_clients, access_tokens, refresh_tokens)
    /\ disk.state = IF gen.client > 0 \/ gen.access > 0 THEN "written" ELSE "missing"
    /\ \A body \in RegisterBodies :
        LET r == register_client(body)
        IN  r.disk = [state |-> "written",
                      data |-> Snapshot(r.registered_clients, r.access_tokens,
                                        r.refresh_tokens)]
    /\ \A data \in TokenRequests :
        LET r == token_endpoint(data)
        IN  IF r.response.status = 200
            THEN r.disk = [state |-> "written",
                           data |-> Snapshot(r.registered_clients, r.access_tokens,
                                             r.refresh_tokens)]
            ELSE r.disk = disk
    /\ \A form \in AuthorizeForms : authorize_post(form).disk = disk

\* A refresh has just written a snapshot with two access tokens.
C16_Witness ==
    /\ response = Response("token", 200, "", "access token")
    /\ disk.state = "written"
    /\ Cardinality(DOMAIN disk.data.access_tokens) >= 2
    /\ DOMAIN disk.data.registered_clients # {}

\* C17: each registration adds exactly one key to registered_clients, the client_id
\* it returns, which was not a key before, and leaves the record of every client
\* registered before as it was; each record is stored under its own client_id.
C17_RegistrationAddsOneClient ==
    /\ \A c \in DOMAIN registered_clients : registered_clients[c].client_id = c
    /\ \A body \in RegisterBodies :
        LET r == register_client(body)
        IN  /\ r.gen.client \notin DOMAIN registered_clients
            /\ DOMAIN r.registered_clients
                 = (DOMAIN registered_clients) \cup {r.gen.client}
            /\ \A c \in DOMAIN registered_clients :
                 r.registered_clients[c] = registered_clients[c]

\* A client was registered: the next registration is a repeated one.
C17_Witness ==
    /\ response = Response("register", 201, "", "")
    /\ DOMAIN registered_clients # {}

\* C18: only a successful authorization_code exchange adds a refresh token, and it
\* adds exactly one; a successful refresh adds exactly one access token, bound to the
\* client_id and scope of the refresh token used, and leaves refresh_tokens,
\* authorization_codes and registered_clients as they were.
C18_RefreshCreatesOnlyAccessToken ==
    /\ \A data \in TokenRequests :
        LET r == token_endpoint(data)
            new_rt == (DOMAIN r.refresh_tokens) \ (DOMAIN refresh_tokens)
            new_at == (DOMAIN r.access_tokens) \ (DOMAIN access_tokens)
        IN  /\ Cardinality(new_rt) =
                 (IF data.grant_type = "authorization_code" /\ r.response.status = 200
                  THEN 1 ELSE 0)
            /\ (data.grant_type = "refresh_token" /\ r.response.status = 200) =>
                 /\ Cardinality(new_at) = 1
                 /\ \A t \in new_at :
                      /\ r.access_tokens[t].client_id
                           = refresh_tokens[data.refresh_token].client_id
                      /\ r.access_tokens[t].scope
                           = refresh_tokens[data.refresh_token].scope
                 /\ r.refresh_tokens = refresh_tokens
                 /\ r.authorization_codes = authorization_codes
                 /\ r.registered_clients = registered_clients
    /\ \A form \in AuthorizeForms : authorize_post(form).refresh_tokens = refresh_tokens
    /\ \A body \in RegisterBodies : register_client(body).refresh_tokens = refresh_tokens

\* A refresh has succeeded with a refresh token of scope notes:read.
C18_Witness ==
    /\ response = Response("token", 200, "", "access token")
    /\ \E rt \in refreshed :
        /\ rt \in DOMAIN refresh_tokens
        /\ refresh_tokens[rt].scope = "notes:read"
        /\ \E t \in DOMAIN access_tokens :
            t > 1 /\ access_tokens[t].scope = "notes:read"

\* C19: a step after which the last response is the middleware's leaves
\* registered_clients, authorization_codes, access_tokens and refresh_tokens as they
\* were; a token refused as expired stays in access_tokens with its fields.
C19_MiddlewareNeverWrites ==
    [][response'.op = "dispatch" => store' = store]_vars

\* The middleware has refused a token as expired, and the token is in the store.
C19_Witness ==
    /\ response = Response("dispatch", 401, "invalid_token", "Token expired")
    /\ \E t \in DOMAIN access_tokens : access_tokens[t].expires_at < now

\* C20: an exchange presenting a code after its expires_at is answered 400
\* invalid_grant, creates no token and deletes the code; a code once refused as
\* expired is absent at every later attempt.
C20_ExpiredCodeDeleted ==
    /\ \A data \in AuthCodeRequests :
        (/\ data.code \in DOMAIN authorization_codes
         /\ now > authorization_codes[data.code].expires_at) =>
            LET r == token_endpoint(data)
            IN  /\ r.response.status = 400
                /\ r.response.error = "invalid_grant"
                /\ r.access_tokens = access_tokens
                /\ r.refresh_tokens = refresh_tokens
                /\ data.code \notin DOMAIN r.authorization_codes
    /\ \A code \in DOMAIN exchange_log :
        "Authorization code expired" \in exchange_log[code] =>
            /\ code \notin DOMAIN authorization_codes
            /\ \A data \in AuthCodeRequests :
                data.code = code =>
                    token_endpoint(data).response
                      = Response("token", 400, "invalid_grant",
                                 "Invalid authorization code")

\* A code of a registered client was refused as expired and is gone.
C20_Witness ==
    /\ response = Response("token", 400, "invalid_grant", "Authorization code expired")
    /\ \E code \in DOMAIN exchange_log :
        "Authorization code expired" \in exchange_log[code]
    /\ authorization_codes = EmptyDict
    /\ DOMAIN registered_clients # {}

\* C21: while OAUTH_PASSWORD is empty, POST /authorize answers every form, the one
\* with the empty password included, with the configuration error, issues no code
\* and leaves the four maps as they were; no code is ever in the store.
C21_UnconfiguredPasswordIssuesNoCode ==
    OAUTH_PASSWORD = "" =>
        /\ authorization_codes = EmptyDict
        /\ gen.code = 0
        /\ \A form \in AuthorizeForms :
            LET r == authorize_post(form)
            IN  /\ r.response = Response("authorize_post", 500, "",
                                         "OAUTH_PASSWORD not configured on server.")
                /\ r.registered_clients = registered_clients
                /\ r.authorization_codes = authorization_codes
                /\ r.access_tokens = access_tokens
                /\ r.refresh_tokens = refresh_tokens
                /\ r.gen = gen

\* Without a server password, a client is registered and POST /authorize was
\* answered with the configuration error.
C21_Witness ==
    /\ OAUTH_PASSWORD = ""
    /\ DOMAIN registered_clients # {}
    /\ response = Response("authorize_post", 500, "",
                           "OAUTH_PASSWORD not configured on server.")

\* C22: a POST /token that is answered with an error (an unknown code, a client_id
\* mismatch, a failed PKCE check, an unknown refresh token, a refresh client_id
\* mismatch, another grant_type) leaves registered_clients, access_tokens and
\* refresh_tokens as they were and does not write the storage file; another
\* grant_type is answered unsupported_grant_type.
C22_TokenErrorsWriteNothing ==
    \A data \in TokenRequests :
        LET r == token_endpoint(data)
        IN  /\ r.response.status # 200 =>
                /\ r.registered_clients = registered_clients
                /\ r.access_tokens = access_tokens
                /\ r.refresh_tokens = refresh_tokens
                /\ r.disk = disk
                /\ r.gen = gen
            /\ data.grant_type \notin {"authorization_code", "refresh_token"} =>
                r.response = Response("token", 400, "unsupported_grant_type", "")

\* A refresh with the client_id of another party was refused while the store held a
\* refresh token and the file a snapshot.
C22_Witness ==
    /\ response = Response("token", 400, "invalid_grant", "Client ID mismatch")
    /\ DOMAIN refresh_tokens # {}
    /\ authorization_codes = EmptyDict
    /\ disk.state = "written"

\* C23: of the exchange requests for one code that the event loop has resumed, in
\* whatever order and however they overlapped, at most one was answered with tokens
\* and every other one with 400 invalid_grant; one access token and one refresh
\* token at most were generated for the code.
C23_OneConcurrentExchangeWins ==
    /\ \A code \in CodeInputs :
        LET resumed == {i \in DOMAIN inflight :
                            inflight[i].data.code = code /\ inflight[i].pc # "form"}
            won == {i \in resumed : inflight[i].response.status = 200}
        IN  /\ Cardinality(won) <= 1
            /\ \A i \in resumed \ won :
                /\ inflight[i].response.status = 400
                /\ inflight[i].response.error = "invalid_grant"
    /\ gen.access <= gen.code
    /\ gen.refresh <= gen.code

\* Two requests with the right verifier were both suspended while the code was in the
\* store; one was answered with tokens, the other found the code gone.
C23_Witness ==
    /\ Len(inflight) = 2
    /\ \A i \in DOMAIN inflight :
        /\ inflight[i].code_present
        /\ inflight[i].data.code_verifier = "v1"
        /\ inflight[i].pc = "done"
    /\ \E i \in DOMAIN inflight : inflight[i].response.status = 200
    /\ \E i \in DOMAIN inflight :
        inflight[i].response.desc = "Invalid authorization code"

\* C24: an exchange that stores tokens takes its code out of the store, whatever the
\* persistence step does, so that no more refresh tokens and, refreshes aside, no
\* more access tokens are generated than codes were issued.
C24_OneTokenPerCode ==
    /\ \A data \in AuthCodeRequests :
        LET r == token_endpoint(data)
        IN  r.access_tokens # access_tokens =>
                data.code \notin DOMAIN r.authorization_codes
    /\ gen.refresh <= gen.code
    /\ refreshed = {} => gen.access <= gen.code

\* C25: every access token and refresh token in the store carries the client_id and
\* scope of a code that POST /authorize issued on the correct password and that was
\* exchanged; before such a code is issued there is no token.
C25_TokensTraceToAuthorize ==
    LET Origin(token_data) ==
            \E code \in DOMAIN issued :
                /\ issued[code].password = OAUTH_PASSWORD
                /\ "exchanged" \in exchange_log[code]
                /\ token_data.client_id = issued[code].client_id
                /\ token_data.scope = issued[code].scope
    IN  /\ \A t \in DOMAIN access_tokens : Origin(access_tokens[t])
        /\ \A t \in DOMAIN refresh_tokens : Origin(refresh_tokens[t])
        /\ \A t \in DOMAIN access_tokens :
            t \in DOMAIN minted_at /\ (t > gen.refresh => refreshed # {})
        /\ DOMAIN issued = {} =>
            (access_tokens = EmptyDict /\ refresh_tokens = EmptyDict)

\* A code issued for scope notes:read was exchanged and its refresh token used
\* twice: three access tokens of that scope.
C25_Witness ==
    /\ \E code \in DOMAIN issued : issued[code].scope = "notes:read"
    /\ Cardinality(DOMAIN access_tokens) = 3
    /\ \A t \in DOMAIN access_tokens : access_tokens[t].scope = "notes:read"

\* C26: no authorization_code request that presents the bound client_id and no
\* code_verifier is answered with tokens, also when the code was issued for an empty
\* code_challenge.
C26_NoExchangeWithoutVerifier ==
    \A data \in AuthCodeRequests :
        (/\ data.code \in DOMAIN authorization_codes
         /\ authorization_codes[data.code].client_id \in DOMAIN registered_clients
         /\ authorization_codes[data.code].client_id = data.client_id
         /\ data.code_verifier = "")
        => token_endpoint(data).response.status # 200

====
